---------------------------- MODULE Spec2Model ----------------------------
(***************************************************************************)
(* PageRank estimation engine of pagerank.py: transition_model,            *)
(* sample_pagerank and iterate_pagerank.                                   *)
(*                                                                         *)
(* Pages are the integers 1..N; a dictionary's iteration order and         *)
(* sorted() are the ascending order.  Python's float arithmetic is         *)
(* modelled by exact rational arithmetic: small rationals are reduced      *)
(* pairs <<numerator, denominator>>, the ranks of iterate_pagerank are     *)
(* arbitrary-precision numerators over one common denominator.             *)
(***************************************************************************)
EXTENDS Integers, Sequences, FiniteSets, TLC

\* ------------------------------------------------------------------ bounds
\* largest number of pages of a corpus
MaxPages == 2
\* largest sample count n passed to sample_pagerank
MaxSamples == 3
\* cap on the number of passes of the while loop of iterate_pagerank
MaxPasses == 40

\* ------------------------------------------------------- program constants
\* DAMPING = 0.85 = DampingNum / DampingDen
DampingNum == 17
DampingDen == 20
\* threshold = 0.001 = 1 / ThresholdDen
ThresholdDen == 1000

\* damping factors the functions are called with, as <<numerator, denominator>>
Dampings == {<<1, 2>>, <<DampingNum, DampingDen>>}

\* --------------------------------------------------- small exact rationals
RECURSIVE Gcd(_, _)
Gcd(a, b) == IF b = 0 THEN a ELSE Gcd(b, a % b)

Rat(a, b) == LET g == Gcd(a, b) IN <<a \div g, b \div g>>

RAdd(x, y) == Rat(x[1] * y[2] + y[1] * x[2], x[2] * y[2])

RECURSIVE RSumTo(_, _)
\* sum of the values f[1] + ... + f[k]
RSumTo(f, k) == IF k = 0 THEN <<0, 1>> ELSE RAdd(RSumTo(f, k - 1), f[k])

\* len(corpus)
Len_(corpus) == Cardinality(DOMAIN corpus)

\* ------------------------------------------------------------------ crawl
\* every corpus of N pages whose links all lead to pages of the corpus
CorporaOf(N) == [1..N -> SUBSET (1..N)]

Corpora == UNION {CorporaOf(N) : N \in 0..MaxPages}

\* -------------------------------------------------------- transition_model
\* transition_model with a page without links taken to link to every page
\* but itself
transition_model_not_self(corpus, page, damping_factor) ==
    LET linked_pages == IF corpus[page] = {}
                        THEN DOMAIN corpus \ {page}
                        ELSE corpus[page]
        dn == damping_factor[1]
        dd == damping_factor[2]
        probability_random == Rat(dd - dn, dd * Len_(corpus))
        probability_linked == Rat(dn, dd * Cardinality(linked_pages))
    IN  [q \in DOMAIN corpus |->
            IF Cardinality(linked_pages) > 0 /\ q \in linked_pages
            THEN RAdd(probability_linked, probability_random)
            ELSE probability_random]

transition_model(corpus, page, damping_factor) ==
    LET linked_pages == corpus[page]
        dn == damping_factor[1]
        dd == damping_factor[2]
        probability_random == Rat(dd - dn, dd * Len_(corpus))
        probability_linked == Rat(dn, dd * Cardinality(linked_pages))
    IN  [q \in DOMAIN corpus |->
            IF Cardinality(linked_pages) > 0 /\ q \in linked_pages
            THEN RAdd(probability_linked, probability_random)
            ELSE probability_random]


\* ------------------------------------------- arbitrary-precision naturals
\* a natural number is the sequence of its digits in base Base, lowest first,
\* without leading zeros (zero is the empty sequence).  An operand is bound
\* to its value by x \in {operand} before the digits are walked, so that it
\* is computed once.
Base == 1000 * 1000

RECURSIVE BFromInt(_)
BFromInt(k) == IF k = 0 THEN <<>> ELSE <<k % Base>> \o BFromInt(k \div Base)

RECURSIVE BMulC(_, _, _, _)
\* the digits of a * m from digit j on, with the carry of the lower digits
BMulC(a, m, j, carry) ==
    IF j > Len(a) THEN BFromInt(carry)
    ELSE CHOOSE r \in {<<t % Base>> \o BMulC(a, m, j + 1, t \div Base) :
                          t \in {a[j] * m + carry}} : TRUE

\* a * m, for a small natural m
BMul(a, m) ==
    CHOOSE r \in {IF y = 0 THEN <<>> ELSE BMulC(x, y, 1, 0) :
                      x \in {a}, y \in {m}} : TRUE

RECURSIVE BAddC(_, _, _, _)
BAddC(a, b, j, carry) ==
    IF j > Len(a) /\ j > Len(b) THEN BFromInt(carry)
    ELSE CHOOSE r \in {<<t % Base>> \o BAddC(a, b, j + 1, t \div Base) :
                          t \in {(IF j > Len(a) THEN 0 ELSE a[j])
                                 + (IF j > Len(b) THEN 0 ELSE b[j])
                                 + carry}} : TRUE

BAdd(a, b) == CHOOSE r \in {BAddC(x, y, 1, 0) : x \in {a}, y \in {b}} : TRUE

RECURSIVE BLeqAt(_, _, _)
\* a <= b for numbers of the same length, compared from digit k downwards
BLeqAt(a, b, k) ==
    IF k = 0 THEN TRUE
    ELSE IF a[k] # b[k] THEN a[k] < b[k]
    ELSE BLeqAt(a, b, k - 1)

BLeq(a, b) ==
    \E x \in {a}, y \in {b} :
        IF Len(x) # Len(y) THEN Len(x) < Len(y) ELSE BLeqAt(x, y, Len(x))

RECURSIVE BStripTo(_, _)
\* the digits 1..k of a without leading zeros
BStripTo(a, k) ==
    IF k = 0 THEN <<>>
    ELSE IF a[k] = 0 THEN BStripTo(a, k - 1)
    ELSE SubSeq(a, 1, k)

RECURSIVE BSubC(_, _, _, _)
\* the digits of a - b from digit j on (a >= b), with the borrow of the lower
BSubC(a, b, j, borrow) ==
    IF j > Len(a) THEN <<>>
    ELSE CHOOSE r \in {<<IF t < 0 THEN t + Base ELSE t>>
                       \o BSubC(a, b, j + 1, IF t < 0 THEN 1 ELSE 0) :
                          t \in {a[j] - (IF j > Len(b) THEN 0 ELSE b[j])
                                 - borrow}} : TRUE

\* abs(a - b)
BAbsDiff(a, b) ==
    CHOOSE r \in {BStripTo(d, Len(d)) :
                    d \in {IF BLeq(y, x) THEN BSubC(x, y, 1, 0)
                           ELSE BSubC(y, x, 1, 0) : x \in {a}, y \in {b}}} : TRUE

RECURSIVE BMulPow(_, _, _)
\* a * m^k
BMulPow(a, m, k) == IF k = 0 THEN a ELSE BMulPow(BMul(a, m), m, k - 1)

RECURSIVE LcmUpTo(_)
\* least common multiple of 1..k: every num_links divides it
LcmUpTo(k) ==
    IF k <= 1 THEN 1
    ELSE LET m == LcmUpTo(k - 1) IN (m * k) \div Gcd(m, k)

\* factor by which one update of a rank multiplies the common denominator
Scale(corpus, damping_factor) == damping_factor[2] * LcmUpTo(Len_(corpus))

\* ------------------------------------------------------------------ state
VARIABLES
    call,                   \* the function that is called
    corpus,                 \* its argument corpus: page -> set of linked pages
    damping_factor,         \* its argument damping_factor
    n,                      \* sample_pagerank's argument n
    pc,                     \* position in the called function
    outcome,                \* "running", "returned" or the exception raised
    page,                   \* transition_model's argument page
    transition_dictionary,  \* transition_model's return value
    current_page,           \* sample_pagerank: current_page
    sample_list,            \* sample_pagerank: sample_list
    i,                      \* sample_pagerank: loop counter i
    drawn,                  \* the <<page, weight>> pairs handed to the last random.choices
    sample_dictionary,      \* sample_pagerank's return value
    page_rank_dictionary,   \* iterate_pagerank: numerators of the ranks
    rank_den,               \* their common denominator
    is_over,                \* iterate_pagerank: is_over
    page_p,                 \* iterate_pagerank: position of the for loop over the corpus
    pass_start,             \* numerators of the ranks when the running pass began
    pass_start_den,         \* their common denominator
    exceeded,               \* pages that changed by more than threshold in the running pass
    run,                    \* consecutive updates that stayed within threshold
    passes                  \* passes of the while loop begun so far

vars == <<call, corpus, damping_factor, n, pc, outcome, page,
          transition_dictionary, current_page, sample_list, i, drawn,
          sample_dictionary, page_rank_dictionary, rank_den, is_over, page_p,
          pass_start, pass_start_den, exceeded, run, passes>>

tmVars == <<page, transition_dictionary>>
sampleVars == <<n, current_page, sample_list, i, drawn, sample_dictionary>>
iterVars == <<page_rank_dictionary, rank_den, is_over, page_p, pass_start,
              pass_start_den, exceeded, run, passes>>
argVars == <<call, corpus, damping_factor>>

\* values of the locals of a function that is not running
Idle ==
    /\ pc = "start"
    /\ outcome = "running"
    /\ transition_dictionary = <<>>
    /\ current_page = 0
    /\ sample_list = <<>>
    /\ i = 0
    /\ drawn = {}
    /\ sample_dictionary = <<>>
    /\ page_rank_dictionary = <<>>
    /\ rank_den = <<>>
    /\ is_over = 0
    /\ page_p = 0
    /\ pass_start = <<>>
    /\ pass_start_den = <<>>
    /\ exceeded = {}
    /\ run = 0
    /\ passes = 0

\* a call of transition_model: page is a key of the corpus
InitTransition ==
    /\ call = "transition_model"
    /\ corpus \in Corpora
    /\ Len_(corpus) > 0
    /\ damping_factor \in Dampings
    /\ page \in DOMAIN corpus
    /\ n = 0
    /\ Idle

\* a call of sample_pagerank
InitSample ==
    /\ call = "sample_pagerank"
    /\ corpus \in Corpora
    /\ damping_factor \in Dampings
    /\ n \in -1..MaxSamples
    /\ page = 0
    /\ Idle

\* a call of iterate_pagerank
InitIterate ==
    /\ call = "iterate_pagerank"
    /\ corpus \in Corpora
    /\ damping_factor \in Dampings
    /\ n = 0
    /\ page = 0
    /\ Idle

Init == InitTransition \/ InitSample \/ InitIterate

\* ------------------------------------------------- transition_model, called
TransitionCall ==
    /\ call = "transition_model"
    /\ pc = "start"
    /\ transition_dictionary' = transition_model(corpus, page, damping_factor)
    /\ pc' = "done"
    /\ outcome' = "returned"
    /\ UNCHANGED <<argVars, page, sampleVars, iterVars>>

\* ----------------------------------------------------------- sample_pagerank
RECURSIVE sorted(_)
\* sorted(S): the elements of S in ascending order
sorted(S) ==
    IF S = {} THEN <<>>
    ELSE LET m == CHOOSE x \in S : \A y \in S : x <= y
         IN  <<m>> \o sorted(S \ {m})

\* list(S): the elements of a set in any order
list(S) ==
    LET s == sorted(S)
    IN  {[k \in 1..Len(s) |-> perm[s[k]]] : perm \in Permutations(S)}

\* the <<element, weight>> pairs of random.choices(population, weights)
Weighted(population, weights) ==
    {<<population[k], weights[k]>> : k \in DOMAIN population}

\* random.choices(population, weights)[0]: any element of positive weight
choices(population, weights) ==
    {population[k] : k \in {j \in DOMAIN population : weights[j][1] > 0}}

\* sample_list.count(page)
RECURSIVE count(_, _)
count(l, q) ==
    IF l = <<>> THEN 0
    ELSE (IF Head(l) = q THEN 1 ELSE 0) + count(Tail(l), q)

\* the value sample_pagerank stores for a page
sample_value(l, q, samples) ==
    IF \E k \in DOMAIN l : l[k] = q
    THEN Rat(count(l, q), samples)
    ELSE <<0, 1>>

\* the loop test off by one
loop_test_inclusive(k, samples) == k <= samples

\* line 95: the test of the while loop
loop_test(k, samples) == k < samples

\* line 91: random.sample(sorted(corpus), 1)[0]
SampleStart ==
    /\ call = "sample_pagerank"
    /\ pc = "start"
    /\ IF Len_(corpus) = 0
       THEN /\ pc' = "done"
            /\ outcome' = "ValueError"
            /\ UNCHANGED current_page
       ELSE /\ \E random_page \in DOMAIN corpus : current_page' = random_page
            /\ pc' = "loop"
            /\ UNCHANGED outcome
    /\ UNCHANGED <<argVars, tmVars, n, sample_list, i, drawn,
                   sample_dictionary, iterVars>>

\* lines 95-108: one turn of the while loop
SampleStep ==
    /\ call = "sample_pagerank"
    /\ pc = "loop"
    /\ loop_test(i, n)
    /\ sample_list' = Append(sample_list, current_page)
    /\ LET transition_dict ==
               transition_model(corpus, current_page, damping_factor)
           links == corpus[current_page]
       IN  IF Cardinality(links) > 0
           THEN LET list_of_probabilities ==
                        [k \in 1..Cardinality(links) |->
                            transition_dict[sorted(links)[k]]]
                IN  \E population \in list(links) :
                        /\ drawn' = Weighted(population, list_of_probabilities)
                        /\ current_page' \in
                               choices(population, list_of_probabilities)
           ELSE LET list_of_probabilities ==
                        [j \in 1..Len_(corpus) |->
                            Rat(damping_factor[2] - damping_factor[1],
                                damping_factor[2] * Len_(corpus))]
                IN  /\ drawn' = Weighted(sorted(DOMAIN corpus),
                                         list_of_probabilities)
                    /\ current_page' \in
                           choices(sorted(DOMAIN corpus), list_of_probabilities)
    /\ i' = i + 1
    /\ UNCHANGED <<argVars, tmVars, n, pc, outcome, sample_dictionary, iterVars>>

\* lines 110-117: the loop is over, build and return sample_dictionary
SampleFinish ==
    /\ call = "sample_pagerank"
    /\ pc = "loop"
    /\ ~loop_test(i, n)
    /\ sample_dictionary' =
           [q \in DOMAIN corpus |-> sample_value(sample_list, q, n)]
    /\ pc' = "done"
    /\ outcome' = "returned"
    /\ UNCHANGED <<argVars, tmVars, n, current_page, sample_list, i, drawn,
                   iterVars>>

\* ---------------------------------------------------------- iterate_pagerank
\* lines 140-143: list_of_incoming_pages of page p
incoming_pages(c, p) ==
    {page_i \in DOMAIN c : p \in c[page_i] \/ Cardinality(c[page_i]) = 0}

\* lines 151-153: num_links of an incoming page
num_links(c, incoming) ==
    IF Cardinality(c[incoming]) = 0 THEN Len_(c) ELSE Cardinality(c[incoming])

RECURSIVE SumOver(_, _, _, _)
\* sum over the pages q <= k of S of ranks[q] / num_links(q), as a numerator
\* over the common denominator of the ranks times LcmUpTo(len(corpus))
SumOver(c, ranks, S, k) ==
    IF k = 0 THEN <<>>
    ELSE BAdd(IF k \in S
              THEN BMul(ranks[k], LcmUpTo(Len_(c)) \div num_links(c, k))
              ELSE <<>>,
              SumOver(c, ranks, S, k - 1))

\* lines 147-158: summation for page p
summation(c, ranks, p) ==
    IF Cardinality(incoming_pages(c, p)) > 0
    THEN SumOver(c, ranks, incoming_pages(c, p), Len_(c))
    ELSE SumOver(c, ranks, {q \in DOMAIN c : Cardinality(c[q]) = 0}, Len_(c))

\* new_pagerank without the random-jump term (1 - damping_factor) / n
new_pagerank_no_jump(c, ranks, den, p, d) ==
    BMul(summation(c, ranks, p), d[1])

\* line 160: new_pagerank of page p, as a numerator over den * Scale
new_pagerank(c, ranks, den, p, d) ==
    BAdd(BMul(den, (d[2] - d[1]) * (LcmUpTo(Len_(c)) \div Len_(c))),
         BMul(summation(c, ranks, p), d[1]))

\* line 163: abs(new_pagerank - old_pagerank) <= threshold, for numerators
\* over the denominator den
within_threshold(new, old, den) ==
    BLeq(BMul(BAbsDiff(new, old), ThresholdDen), den)

\* is_over left as it is, not reset, by a page that exceeds the threshold
is_over_next_no_reset(over, size, within) ==
    IF within THEN over - 1 ELSE over

\* lines 163-166: is_over after the update of one page
is_over_next(over, size, within) == IF within THEN over - 1 ELSE size

\* the while loop left only when is_over is exactly 0
while_test_nonzero(over) == over # 0

\* line 138: the test of the while loop
while_test(over) == over > 0

\* lines 130-136
IterateStart ==
    /\ call = "iterate_pagerank"
    /\ pc = "start"
    /\ page_rank_dictionary' = [q \in DOMAIN corpus |-> BFromInt(1)]
    /\ rank_den' = BFromInt(Len_(corpus))
    /\ is_over' = Len_(corpus)
    /\ pc' = "while"
    /\ UNCHANGED <<argVars, tmVars, sampleVars, outcome, page_p, pass_start,
                   pass_start_den, exceeded, run, passes>>

\* lines 138 and 168: enter the next pass over the corpus, or return
IterateWhile ==
    /\ call = "iterate_pagerank"
    /\ pc = "while"
    /\ IF while_test(is_over)
       THEN /\ passes < MaxPasses
            /\ pc' = "for"
            /\ page_p' = 1
            /\ pass_start' = page_rank_dictionary
            /\ pass_start_den' = rank_den
            /\ exceeded' = {}
            /\ passes' = passes + 1
            /\ UNCHANGED outcome
       ELSE /\ pc' = "done"
            /\ outcome' = "returned"
            /\ UNCHANGED <<page_p, pass_start, pass_start_den, exceeded, passes>>
    /\ UNCHANGED <<argVars, tmVars, sampleVars, page_rank_dictionary, rank_den,
                   is_over, run>>

\* lines 139-166: the body of the for loop, for the page at position page_p
IterateUpdate ==
    /\ call = "iterate_pagerank"
    /\ pc = "for"
    /\ \E k \in {Scale(corpus, damping_factor)} :
       \E old_pagerank \in {BMul(page_rank_dictionary[page_p], k)},
          new \in {new_pagerank(corpus, page_rank_dictionary, rank_den,
                                page_p, damping_factor)},
          den \in {BMul(rank_den, k)} :
       \E within \in {within_threshold(new, old_pagerank, den)} :
           /\ page_rank_dictionary' =
                  [q \in DOMAIN corpus |->
                      IF q = page_p THEN new
                      ELSE BMul(page_rank_dictionary[q], k)]
           /\ rank_den' = den
           /\ is_over' = is_over_next(is_over, Len_(corpus), within)
           /\ exceeded' = IF within THEN exceeded ELSE exceeded \cup {page_p}
           /\ run' = IF within THEN run + 1 ELSE 0
    /\ IF page_p < Len_(corpus)
       THEN page_p' = page_p + 1 /\ pc' = "for"
       ELSE page_p' = page_p /\ pc' = "while"
    /\ UNCHANGED <<argVars, tmVars, sampleVars, outcome, pass_start,
                   pass_start_den, passes>>

\* ---------------------------------------------------------- specifications
NextTransition == TransitionCall
NextSample == SampleStart \/ SampleStep \/ SampleFinish
NextIterate == IterateStart \/ IterateWhile \/ IterateUpdate

Next == NextTransition \/ NextSample \/ NextIterate

Spec == Init /\ [][Next]_vars

\* iterate_pagerank alone; a call that can take a step takes it
FairIterate == InitIterate /\ [][NextIterate]_vars /\ WF_vars(NextIterate)

\* ------------------------------------------------------------------ claims
Pages == DOMAIN corpus
N == Len_(corpus)

\* number of visits of page q recorded in sample_list
Visits(q) == Cardinality({k \in DOMAIN sample_list : sample_list[k] = q})

RECURSIVE BSumTo(_, _)
\* f[1] + ... + f[k] for arbitrary-precision numerators
BSumTo(f, k) == IF k = 0 THEN <<>> ELSE BAdd(BSumTo(f, k - 1), f[k])

\* C1: for every page of a non-empty corpus (dangling pages included),
\* transition_model returns a value for exactly the pages of the corpus and
\* the values sum to 1.
C1_DistributionSumsToOne ==
    (call = "transition_model" /\ pc = "done") =>
        /\ DOMAIN transition_dictionary = Pages
        /\ RSumTo(transition_dictionary, N) = <<1, 1>>

\* C2: at every step of sample_pagerank the weighted draw is made among all
\* pages of the corpus, each weighted by its value in
\* transition_model(corpus, current_page, damping_factor), so every page is a
\* possible successor of every page.
C2_DrawFollowsTransitionModel ==
    (call = "sample_pagerank" /\ drawn # {}) =>
        LET from == sample_list[Len(sample_list)]
            dist == transition_model(corpus, from, damping_factor)
        IN  /\ drawn = {<<q, dist[q]>> : q \in Pages}
            /\ \A q \in Pages : \E w \in drawn : w[1] = q /\ w[2][1] > 0

\* C3: for a non-empty corpus and n >= 1, sample_pagerank records exactly n
\* visits, each of a page of the corpus, and returns visits(page) / n for
\* every page; the visit counts sum to n, the estimates to 1.
C3_SampleCounts ==
    (call = "sample_pagerank" /\ N > 0 /\ n >= 1) =>
        /\ pc = "loop" => Len(sample_list) = i /\ i <= n
        /\ pc = "done" =>
            /\ outcome = "returned"
            /\ Len(sample_list) = n
            /\ \A k \in DOMAIN sample_list : sample_list[k] \in Pages
            /\ DOMAIN sample_dictionary = Pages
            /\ \A q \in Pages : sample_dictionary[q] = Rat(Visits(q), n)
            /\ RSumTo([q \in Pages |-> <<Visits(q), 1>>], N) = <<n, 1>>
            /\ RSumTo(sample_dictionary, N) = <<1, 1>>

C3_Witness ==
    /\ call = "sample_pagerank"
    /\ pc = "done"
    /\ N = 2
    /\ n = 3
    /\ sample_dictionary = <<<<2, 3>>, <<1, 3>>>>

\* C4: for every non-empty corpus the ranks returned by iterate_pagerank sum
\* to 1 within 1e-6.
C4_RanksSumToOne ==
    (call = "iterate_pagerank" /\ pc = "done" /\ N > 0) =>
        BLeq(BMul(BMul(BAbsDiff(BSumTo(page_rank_dictionary, N), rank_den),
                       1000), 1000),
             rank_den)

\* C5: iterate_pagerank returns only after a whole pass over the corpus in
\* which every page changed by at most the threshold; a page that changes by
\* more resets is_over to n, so after a pass in which some page exceeded the
\* threshold the loop goes on.
C5_ReturnsAfterQuietPass ==
    (call = "iterate_pagerank" /\ N > 0) =>
        /\ pc \in {"while", "for", "done"} => is_over = N - run
        /\ (pc = "while" /\ exceeded # {}) => is_over > 0
        /\ pc = "done" =>
            /\ passes >= 1
            /\ page_p = N
            /\ exceeded = {}
            /\ run >= N

C5_Witness ==
    /\ call = "iterate_pagerank"
    /\ pc = "done"
    /\ N = 2
    /\ passes >= 3
    /\ run > N

\* C6: sample_pagerank and iterate_pagerank called with an empty corpus, and
\* sample_pagerank called with n < 1, end in an input error and return no
\* mapping (the ValueError of random.sample is counted as that error here).
C6_InvalidInputRaised ==
    (/\ call \in {"sample_pagerank", "iterate_pagerank"}
     /\ (N = 0 \/ (call = "sample_pagerank" /\ n < 1))
     /\ pc = "done") =>
        /\ outcome \in {"InvalidInput", "ValueError"}
        /\ sample_dictionary = <<>>
        /\ passes = 0

\* C7: for a page without links, all values of the distribution returned by
\* transition_model are equal, the page's own value included.
C7_DanglingUniform ==
    (call = "transition_model" /\ pc = "done" /\ corpus[page] = {}) =>
        /\ DOMAIN transition_dictionary = Pages
        /\ \A q, r \in Pages :
               transition_dictionary[q] = transition_dictionary[r]

C7_Witness ==
    /\ call = "transition_model"
    /\ pc = "done"
    /\ N = 2
    /\ corpus[page] = {}
    /\ corpus[3 - page] = {page}

\* C8: for a corpus of one page without links, sample_pagerank (n >= 1) and
\* iterate_pagerank terminate and return rank exactly 1 for the page:
\* iterate_pagerank makes one pass and leaves the loop, sample_pagerank
\* leaves its loop after n turns.
C8_SinglePage ==
    (N = 1 /\ corpus[1] = {}) =>
        /\ (call = "iterate_pagerank") =>
            /\ passes <= 1
            /\ (pc = "while" /\ passes = 1) => ~while_test(is_over)
            /\ pc = "done" =>
                /\ outcome = "returned"
                /\ DOMAIN page_rank_dictionary = {1}
                /\ page_rank_dictionary[1] = rank_den
        /\ (call = "sample_pagerank" /\ n >= 1) =>
            /\ i <= n
            /\ pc = "done" =>
                /\ outcome = "returned"
                /\ sample_dictionary = <<<<1, 1>>>>

C8_Witness ==
    /\ call = "iterate_pagerank"
    /\ pc = "done"
    /\ N = 1
    /\ corpus[1] = {}
    /\ passes = 1
    /\ page_rank_dictionary[1] = rank_den

\* C9: at the end of every pass the rank of every page p is
\* (1 - damping)/N + damping * (sum over the pages i that link to p or are
\* dangling of rank(i)/L(i)) with rank(i) the value i had when the pass
\* began: no rank rewritten earlier in the same pass is read.
C9_SynchronousUpdate ==
    (call = "iterate_pagerank" /\ pc = "while" /\ passes >= 1) =>
        \A p \in Pages :
            page_rank_dictionary[p] =
                BMulPow(new_pagerank(corpus, pass_start, pass_start_den, p,
                                     damping_factor),
                        Scale(corpus, damping_factor), N - 1)

\* C10: for every non-empty corpus iterate_pagerank eventually returns, with
\* a rank for every page of the corpus.
C10_Terminates ==
    <>(/\ pc = "done"
       /\ outcome = "returned"
       /\ DOMAIN page_rank_dictionary = Pages)

C10_Witness ==
    /\ call = "iterate_pagerank"
    /\ pc = "done"
    /\ outcome = "returned"
    /\ N = 2
    /\ passes >= 10
    /\ damping_factor = <<DampingNum, DampingDen>>

=============================================================================
